---- MODULE Spec2Model ----
(***************************************************************************)
(* caska: a log-structured key-value store (src/src/lib.rs).               *)
(*                                                                         *)
(* The record codec (KeyValueEntry <-> Vec<u8>), the append log (File) and *)
(* the indexed store (MemoryStore) are modelled on a 64-bit target: usize  *)
(* is wider than u32, so every `as u32` cast is a reduction modulo 2^32.   *)
(*                                                                         *)
(* Numbers that may reach 2^32 are kept as two 16-bit limbs, and byte      *)
(* vectors are kept run-length encoded, so that a log of more than 2^32    *)
(* bytes is a small value of the model.                                    *)
(***************************************************************************)
EXTENDS Integers, Sequences, FiniteSets, TLC

VARIABLES
    file,      \* MemoryStore.file: [id, data]
    keydir,    \* MemoryStore.keydir: key bytes -> KeyDirEntry
    hist,      \* history: the puts made so far, in call order
    prev,      \* history: file.data as it was before the last call
    was,       \* history: file.id and keydir as they were before the last call
    pending,   \* a put between its two steps: the record it has indexed
    op,        \* history: the last call made on the store (or on the codec)
    ret,       \* history: what that call returned
    entry,     \* codec: the KeyValueEntry under test
    bytes      \* codec: the byte buffer under test

vars == <<file, keydir, hist, prev, was, pending, op, ret, entry, bytes>>

storeVars == <<file, keydir, hist>>
codecVars == <<entry, bytes>>

-----------------------------------------------------------------------------
(* Numbers: n = hi * 2^16 + lo.  A u32 has hi < 2^16; a usize has no such  *)
(* limit within the sizes the model reaches.                               *)

Limb == 256 * 256

Wide(n) == [hi |-> n \div Limb, lo |-> n % Limb]

Zero == Wide(0)

Plus(a, b) ==
    LET s == a.lo + b.lo
    IN  [hi |-> a.hi + b.hi + (s \div Limb), lo |-> s % Limb]

LE(a, b) == a.hi < b.hi \/ (a.hi = b.hi /\ a.lo <= b.lo)

LT(a, b) == LE(a, b) /\ a # b

\* a - b, for b <= a
Minus(a, b) ==
    IF a.lo >= b.lo
    THEN [hi |-> a.hi - b.hi, lo |-> a.lo - b.lo]
    ELSE [hi |-> a.hi - b.hi - 1, lo |-> a.lo + Limb - b.lo]

\* `x as u32`: the low 32 bits of x
as_u32(x) == [hi |-> x.hi % Limb, lo |-> x.lo]

\* a usize built from a u32 (`x as usize`): no change of value
as_usize(x) == x

-----------------------------------------------------------------------------
(* Byte vectors (Vec<u8>, &[u8]): a sequence of runs [b, n], n > 0 bytes   *)
(* of value b, adjacent runs holding different bytes. Equal vectors have   *)
(* equal representations.                                                  *)

Run(b, n) == [b |-> b, n |-> n]

\* Vec::len
RECURSIVE VecLen(_)
VecLen(v) == IF v = <<>> THEN Zero ELSE Plus(Head(v).n, VecLen(Tail(v)))

\* extend_from_slice / write_all on a Vec<u8>: concatenation
Extend(a, b) ==
    IF a = <<>> THEN b
    ELSE IF b = <<>> THEN a
    ELSE IF a[Len(a)].b = b[1].b
         THEN SubSeq(a, 1, Len(a) - 1)
              \o <<Run(b[1].b, Plus(a[Len(a)].n, b[1].n))>>
              \o Tail(b)
         ELSE a \o b

\* a byte vector given byte by byte
RECURSIVE Vec(_)
Vec(s) == IF s = <<>> THEN <<>> ELSE Extend(<<Run(Head(s), Wide(1))>>, Vec(Tail(s)))

\* vec![b; n]
Fill(b, n) == IF n = Zero THEN <<>> ELSE <<Run(b, n)>>

\* the first n bytes of v (n <= len)
RECURSIVE Take(_, _)
Take(v, n) ==
    IF v = <<>> \/ n = Zero THEN <<>>
    ELSE IF LE(Head(v).n, n)
         THEN <<Head(v)>> \o Take(Tail(v), Minus(n, Head(v).n))
         ELSE <<Run(Head(v).b, n)>>

\* v without its first n bytes (n <= len)
RECURSIVE Drop(_, _)
Drop(v, n) ==
    IF v = <<>> \/ n = Zero THEN v
    ELSE IF LE(Head(v).n, n)
         THEN Drop(Tail(v), Minus(n, Head(v).n))
         ELSE <<Run(Head(v).b, Minus(Head(v).n, n))>> \o Tail(v)

None == [some |-> FALSE]
Some(x) == [some |-> TRUE, v |-> x]

\* a slice that gives the bytes there are instead of None
SliceGet_clamped(v, start, end) ==
    LET n  == VecLen(v)
        lo == IF LE(start, n) THEN start ELSE n
        hi == IF LE(end, n) THEN end ELSE n
    IN  Some(Take(Drop(v, lo), Minus(hi, lo)))

\* <[u8]>::get(start..end): None unless start <= end <= len
SliceGet(v, start, end) ==
    IF LE(start, end) /\ LE(end, VecLen(v))
    THEN Some(Take(Drop(v, start), Minus(end, start)))
    ELSE None

\* the bytes of a short vector, one by one
RECURSIVE Expand(_)
Expand(v) ==
    IF v = <<>> THEN <<>>
    ELSE IF Head(v).n = Wide(1)
         THEN <<Head(v).b>> \o Expand(Tail(v))
         ELSE <<Head(v).b>>
              \o Expand(<<Run(Head(v).b, Minus(Head(v).n, Wide(1)))>> \o Tail(v))

IsPrefix(a, b) == LE(VecLen(a), VecLen(b)) /\ Take(b, VecLen(a)) = a

-----------------------------------------------------------------------------
(* ToBytes: the three key/value representations.                           *)

U32Key(n) == [type |-> "u32", n |-> n]
StrKey(chars) == [type |-> "str", chars |-> chars]
VecKey(v) == [type |-> "vec", bytes |-> v]

\* BigEndian::write_u32
BigEndian_write_u32(n) ==
    <<n.hi \div 256, n.hi % 256, n.lo \div 256, n.lo % 256>>

\* BigEndian::read_u32 of four bytes
BigEndian_read_u32(s) == [hi |-> s[1] * 256 + s[2], lo |-> s[3] * 256 + s[4]]

\* UTF-8 of one Unicode scalar value below 2^16 (the bytes a &str holds)
Utf8Char(c) ==
    IF c < 128 THEN <<c>>
    ELSE IF c < 2048 THEN <<192 + (c \div 64), 128 + (c % 64)>>
    ELSE <<224 + (c \div 4096), 128 + ((c \div 64) % 64), 128 + (c % 64)>>

RECURSIVE Utf8(_)
Utf8(chars) == IF chars = <<>> THEN <<>> ELSE Utf8Char(Head(chars)) \o Utf8(Tail(chars))

to_bytes(x) ==
    CASE x.type = "u32" -> Vec(BigEndian_write_u32(x.n))
      [] x.type = "str" -> Vec(Utf8(x.chars))
      [] x.type = "vec" -> x.bytes

-----------------------------------------------------------------------------
(* KeyValueEntry and its codec.                                            *)

SizeOfU32 == 4

KeyValueEntry_new(tstamp, key, value) ==
    LET k == to_bytes(key)
        v == to_bytes(value)
    IN  [tstamp   |-> tstamp,
         ksz      |-> as_u32(VecLen(k)),
         value_sz |-> as_u32(VecLen(v)),
         key      |-> k,
         value    |-> v]

value_offset(e) == Plus(Wide(3 * SizeOfU32), VecLen(e.key))

Ok(x) == [ok |-> TRUE, v |-> x]
Err(why) == [ok |-> FALSE, err |-> why]

\* write_u32::<BigEndian> on a Vec<u8>: appends four bytes, never fails
write_u32(buf, n) == Ok(Extend(buf, Vec(BigEndian_write_u32(n))))

\* a writer of limited capacity: a write of 2^31 bytes or more fails
write_all_limited(buf, data) ==
    IF LE([hi |-> Limb \div 2, lo |-> 0], VecLen(data))
    THEN Err("WriteZero")
    ELSE Ok(Extend(buf, data))

\* write_all on a Vec<u8>: appends, never fails
write_all(buf, data) == Ok(Extend(buf, data))

\* an encoder that writes value_sz before ksz
Encode_sizes_swapped(e) ==
    Ok(Extend(Extend(Vec(BigEndian_write_u32(e.tstamp)
                         \o BigEndian_write_u32(e.value_sz)
                         \o BigEndian_write_u32(e.ksz)),
                     e.key),
              e.value))

\* impl TryFrom<KeyValueEntry> for Vec<u8>; each `?` returns the error
Encode(e) ==
    LET b1 == write_u32(<<>>, e.tstamp) IN
    IF ~b1.ok THEN b1 ELSE
    LET b2 == write_u32(b1.v, e.ksz) IN
    IF ~b2.ok THEN b2 ELSE
    LET b3 == write_u32(b2.v, e.value_sz) IN
    IF ~b3.ok THEN b3 ELSE
    LET b4 == write_all(b3.v, e.key) IN
    IF ~b4.ok THEN b4 ELSE
    write_all(b4.v, e.value)

\* Cursor::read_exact: n bytes from pos, or UnexpectedEof
read_exact(buf, pos, n) ==
    IF LE(Plus(pos, n), VecLen(buf))
    THEN [ok |-> TRUE, v |-> Take(Drop(buf, pos), n), pos |-> Plus(pos, n)]
    ELSE Err("UnexpectedEof")

\* read_u32::<BigEndian> on a Cursor
read_u32(buf, pos) ==
    LET r == read_exact(buf, pos, Wide(SizeOfU32))
    IN  IF r.ok
        THEN [ok |-> TRUE, v |-> BigEndian_read_u32(Expand(r.v)), pos |-> r.pos]
        ELSE r

\* Cursor::read: the bytes available from pos, n at most
read(buf, pos, n) ==
    LET avail == IF LE(pos, VecLen(buf)) THEN Minus(VecLen(buf), pos) ELSE Zero
        m     == IF LE(n, avail) THEN n ELSE avail
    IN  [ok |-> TRUE, v |-> Take(Drop(buf, pos), m), pos |-> Plus(pos, m)]

\* a decoder that fills the value with `read` instead of `read_exact`
Decode_short_value(buf) ==
    LET t == read_u32(buf, Zero) IN
    IF ~t.ok THEN Err(t.err) ELSE
    LET k == read_u32(buf, t.pos) IN
    IF ~k.ok THEN Err(k.err) ELSE
    LET s == read_u32(buf, k.pos) IN
    IF ~s.ok THEN Err(s.err) ELSE
    LET key == read_exact(buf, s.pos, as_usize(k.v)) IN
    IF ~key.ok THEN Err(key.err) ELSE
    LET value == read(buf, key.pos, as_usize(s.v)) IN
    Ok([tstamp   |-> t.v,
        ksz      |-> k.v,
        value_sz |-> s.v,
        key      |-> key.v,
        value    |-> value.v])

\* impl TryFrom<Vec<u8>> for KeyValueEntry
Decode(buf) ==
    LET t == read_u32(buf, Zero) IN
    IF ~t.ok THEN Err(t.err) ELSE
    LET k == read_u32(buf, t.pos) IN
    IF ~k.ok THEN Err(k.err) ELSE
    LET s == read_u32(buf, k.pos) IN
    IF ~s.ok THEN Err(s.err) ELSE
    LET key == read_exact(buf, s.pos, as_usize(k.v)) IN
    IF ~key.ok THEN Err(key.err) ELSE
    LET value == read_exact(buf, key.pos, as_usize(s.v)) IN
    IF ~value.ok THEN Err(value.err) ELSE
    Ok([tstamp   |-> t.v,
        ksz      |-> k.v,
        value_sz |-> s.v,
        key      |-> key.v,
        value    |-> value.v])

-----------------------------------------------------------------------------
(* File: the append log.                                                   *)

File_new(id) == [id |-> id, data |-> <<>>]

File_size(f) == VecLen(f.data)

\* a log that keeps only the last write
File_overwrite(f, data) == [f EXCEPT !.data = data]

\* an append that moves on to a segment with the next id
File_append_next_segment(f, data) ==
    [id |-> as_u32(Plus(f.id, Wide(1))), data |-> Extend(f.data, data)]

File_append(f, data) == [f EXCEPT !.data = Extend(@, data)]

-----------------------------------------------------------------------------
(* MemoryStore.                                                            *)

\* an insert into a map cleared first
Insert_cleared(m, k, e) == [x \in {k} |-> e]

\* HashMap::insert: insert or overwrite
Insert(m, k, e) == [x \in DOMAIN m \cup {k} |-> IF x = k THEN e ELSE m[x]]

MemoryStore_new(t) == [file |-> File_new(t), keydir |-> <<>>]

\* a lookup that takes an absent key for an entry at offset 0 of size 0
get_or_default(store, key) ==
    LET k      == to_bytes(key)
        offset == IF k \in DOMAIN store.keydir
                  THEN as_usize(store.keydir[k].value_pos) ELSE Zero
        size   == IF k \in DOMAIN store.keydir
                  THEN as_usize(store.keydir[k].value_sz) ELSE Zero
    IN  SliceGet(store.file.data, offset, Plus(offset, size))

get(store, key) ==
    LET k == to_bytes(key) IN
    IF k \notin DOMAIN store.keydir THEN None ELSE
    LET e      == store.keydir[k]
        offset == as_usize(e.value_pos)
        size   == as_usize(e.value_sz)
    IN  SliceGet(store.file.data, offset, Plus(offset, size))

\* put, lines 162-171, with now() = t: the record is built, its offset is
\* computed from the size of the log as it is, and the index entry is
\* inserted. The store afterwards and the record still to be appended.
put_insert(store, t, key, value) ==
    LET e            == KeyValueEntry_new(t, key, value)
        value_pos    == Plus(File_size(store.file), value_offset(e))
        keydir_entry == [file_id  |-> store.file.id,
                         value_sz |-> e.value_sz,
                         value_pos |-> as_u32(value_pos),
                         tstamp   |-> e.tstamp]
    IN  [store |-> [file   |-> store.file,
                    keydir |-> Insert(store.keydir, e.key, keydir_entry)],
         entry |-> e]

\* put, lines 173-176: the record is encoded and appended; `?` returns an
\* encoding error without appending.
put_append(store, e) ==
    LET entry_data == Encode(e)
    IN  IF ~entry_data.ok
        THEN [store  |-> store,
              result |-> Err(entry_data.err)]
        ELSE [store  |-> [file   |-> File_append(store.file, entry_data.v),
                          keydir |-> store.keydir],
              result |-> Ok(<<>>)]

\* put with now() = t: the store afterwards and the Result returned.
put(store, t, key, value) ==
    LET indexed == put_insert(store, t, key, value)
    IN  put_append(indexed.store, indexed.entry)

-----------------------------------------------------------------------------
(* Inputs.                                                                 *)

MaxPuts == 2

\* now(): seconds since the epoch, as u32
Times == {Wide(42), [hi |-> 25000, lo |-> 7]}

\* u32::MAX, and a vector of that many zero bytes (its length is a valid u32)
MaxU32 == [hi |-> Limb - 1, lo |-> Limb - 1]
BulkVec == Fill(0, MaxU32)

\* a vector of 2^32 zero bytes (its length is no u32)
OverU32 == [hi |-> Limb, lo |-> 0]
HugeVec == Fill(0, OverU32)

\* keys: the empty key; 1 as u32 and as its 4 big-endian bytes; the text
\* "e-acute" and its UTF-8 bytes
KeyInputs ==
    { VecKey(<<>>),
      U32Key(Wide(1)), VecKey(Vec(<<0, 0, 0, 1>>)),
      StrKey(<<233>>), VecKey(Vec(<<195, 169>>)) }

\* values: empty, the text "hi", 2^32 - 1 zero bytes
ValueInputs == { VecKey(<<>>), StrKey(<<104, 105>>), VecKey(BulkVec) }

NoInput == VecKey(<<>>)
NoEntry == KeyValueEntry_new(Zero, NoInput, NoInput)

Call(kind, key, value) == [kind |-> kind, key |-> key, value |-> value]

-----------------------------------------------------------------------------
(* The store as a state machine: one action per call.                      *)

this == [file |-> file, keydir |-> keydir]

Init ==
    /\ \E t \in Times :
          /\ file = MemoryStore_new(t).file
          /\ keydir = MemoryStore_new(t).keydir
    /\ hist = <<>>
    /\ prev = <<>>
    /\ was = [id |-> file.id, keydir |-> keydir]
    /\ pending = None
    /\ op = Call("new", NoInput, NoInput)
    /\ ret = None
    /\ entry = NoEntry
    /\ bytes = <<>>

Put(t, key, value) ==
    /\ ~pending.some
    /\ Len(hist) < MaxPuts
    /\ \E r \in {put(this, t, key, value)} :
          /\ file' = r.store.file
          /\ keydir' = r.store.keydir
          /\ ret' = r.result
          /\ hist' = Append(hist, [key    |-> to_bytes(key),
                                   value  |-> to_bytes(value),
                                   tstamp |-> t,
                                   start  |-> File_size(file),
                                   result |-> r.result])
    /\ prev' = file.data
    /\ was' = [id |-> file.id, keydir |-> keydir]
    /\ op' = Call("put", key, value)
    /\ UNCHANGED <<pending, codecVars>>

Get(key) ==
    /\ ret' = get(this, key)
    /\ prev' = file.data
    /\ was' = [id |-> file.id, keydir |-> keydir]
    /\ op' = Call("get", key, NoInput)
    /\ UNCHANGED <<storeVars, pending, codecVars>>

Next ==
    \/ \E t \in Times, key \in KeyInputs, value \in ValueInputs : Put(t, key, value)
    \/ \E key \in KeyInputs : Get(key)

Spec == Init /\ [][Next]_vars

-----------------------------------------------------------------------------
(* The codec as a state machine: a record built by KeyValueEntry::new and  *)
(* a byte buffer are drawn at the start; each action applies one           *)
(* conversion.                                                             *)

MaxCut == 16

\* keys: empty, 42 as u32, the text "e-acute", 2^32 zero bytes
CodecKeyInputs ==
    { VecKey(<<>>), U32Key(Wide(42)), StrKey(<<233>>), VecKey(HugeVec) }

\* values: empty, 42 as u32, the text "hi", 2^32 - 1 zero bytes
CodecValueInputs ==
    { VecKey(<<>>), U32Key(Wide(42)), StrKey(<<104, 105>>), VecKey(BulkVec) }

Entries ==
    { KeyValueEntry_new(t, k, v) :
        t \in Times, k \in CodecKeyInputs, v \in CodecValueInputs }

\* lengths at which a buffer of n bytes is cut: near its start and its end
Cuts(n) ==
    { Wide(i) : i \in { j \in 0..MaxCut : LE(Wide(j), n) } }
    \cup { Minus(n, Wide(i)) : i \in { j \in 0..MaxCut : LE(Wide(j), n) } }

\* buffers: an encoding cut short, whole, or followed by more bytes
Buffers(e) ==
    LET b == Encode(e).v
    IN  { Take(b, c) : c \in Cuts(VecLen(b)) }
        \cup { Extend(b, Vec(<<9>>)), Extend(b, b) }

InitCodec ==
    /\ file = MemoryStore_new(Zero).file
    /\ keydir = MemoryStore_new(Zero).keydir
    /\ hist = <<>>
    /\ prev = <<>>
    /\ was = [id |-> file.id, keydir |-> keydir]
    /\ pending = None
    /\ op = Call("new", NoInput, NoInput)
    /\ ret = None
    /\ entry \in Entries
    /\ bytes \in Buffers(entry)

\* Vec::<u8>::try_from(entry); the buffer under test becomes its output
EncodeEntry ==
    /\ \E r \in {Encode(entry)} :
          /\ ret' = r
          /\ bytes' = IF r.ok THEN r.v ELSE bytes
    /\ op' = Call("encode", NoInput, NoInput)
    /\ UNCHANGED <<entry, storeVars, prev, was, pending>>

\* KeyValueEntry::try_from(bytes); "decode_encoded" when the buffer is the
\* output of the encode just made
DecodeBytes ==
    /\ ret' = Decode(bytes)
    /\ op' = Call(IF op.kind = "encode" /\ ret.ok THEN "decode_encoded" ELSE "decode",
                  NoInput, NoInput)
    /\ UNCHANGED <<entry, bytes, storeVars, prev, was, pending>>

NextCodec == EncodeEntry \/ DecodeBytes

SpecCodec == InitCodec /\ [][NextCodec]_vars

-----------------------------------------------------------------------------
(* put in two atomic steps, with one writer: the index entry is inserted   *)
(* (PutInsert), then the record is appended (PutAppend). A get may run     *)
(* between the two.                                                        *)

\* keys: the empty key and the text "e-acute"
StepKeyInputs == { VecKey(<<>>), StrKey(<<233>>) }

PutInsert(t, key, value) ==
    /\ ~pending.some
    /\ Len(hist) < MaxPuts
    /\ \E r \in {put_insert(this, t, key, value)} :
          /\ file' = r.store.file
          /\ keydir' = r.store.keydir
          /\ pending' = Some([entry |-> r.entry, key |-> key, value |-> value])
    /\ prev' = file.data
    /\ was' = [id |-> file.id, keydir |-> keydir]
    /\ op' = Call("put_insert", key, value)
    /\ UNCHANGED <<hist, ret, codecVars>>

PutAppend ==
    /\ pending.some
    /\ \E r \in {put_append(this, pending.v.entry)} :
          /\ file' = r.store.file
          /\ keydir' = r.store.keydir
          /\ ret' = r.result
          /\ hist' = Append(hist, [key    |-> pending.v.entry.key,
                                   value  |-> pending.v.entry.value,
                                   tstamp |-> pending.v.entry.tstamp,
                                   start  |-> File_size(file),
                                   result |-> r.result])
    /\ prev' = file.data
    /\ was' = [id |-> file.id, keydir |-> keydir]
    /\ op' = Call("put", pending.v.key, pending.v.value)
    /\ pending' = None
    /\ UNCHANGED codecVars

NextSteps ==
    \/ \E t \in Times, key \in StepKeyInputs, value \in ValueInputs :
           PutInsert(t, key, value)
    \/ PutAppend
    \/ \E key \in StepKeyInputs : Get(key)

SpecSteps == Init /\ [][NextSteps]_vars

-----------------------------------------------------------------------------
(* The vocabulary of the properties.                                       *)

PutKeys == { hist[i].key : i \in DOMAIN hist }

IsLastPut(i) == \A j \in DOMAIN hist : j > i => hist[j].key # hist[i].key

\* the most recent put made for key bytes k (k \in PutKeys)
LastPut(k) == hist[CHOOSE i \in DOMAIN hist : hist[i].key = k /\ IsLastPut(i)]

\* 12 + len(key) + len(value)
RecordLen(h) == Plus(Plus(Wide(12), VecLen(h.key)), VecLen(h.value))

\* the bytes of a record as the format lays them out, sizes taken as given
Layout(tstamp, ksz, value_sz, key, value) ==
    Extend(Extend(Vec(BigEndian_write_u32(tstamp)
                      \o BigEndian_write_u32(ksz)
                      \o BigEndian_write_u32(value_sz)),
                  key),
           value)

RECURSIVE SumRecordLen(_)
SumRecordLen(h) ==
    IF h = <<>> THEN Zero ELSE Plus(RecordLen(Head(h)), SumRecordLen(Tail(h)))

WellFormed(e) == e.ksz = VecLen(e.key) /\ e.value_sz = VecLen(e.value)

Decoded == op.kind \in {"decode", "decode_encoded"}

\* the sizes a buffer of at least 12 bytes declares in its header
DeclaredKsz(b) == BigEndian_read_u32(Expand(Take(Drop(b, Wide(4)), Wide(4))))
DeclaredValueSz(b) == BigEndian_read_u32(Expand(Take(Drop(b, Wide(8)), Wide(4))))

-----------------------------------------------------------------------------
(* C1: put/get consistency. A get for a key that has been put returns      *)
(* exactly the value of the most recent put for that key.                  *)
C1_PutGetConsistency ==
    (op.kind = "get" /\ to_bytes(op.key) \in PutKeys)
        => ret = Some(LastPut(to_bytes(op.key)).value)

(* C2: last write wins. After put(k, v1) then put(k, v2), get(k) returns   *)
(* v2, the record of the first put is still in the log at its original     *)
(* position, byte for byte, and no index entry designates the range of v1. *)
C2_LastWriteWins ==
    \A i, j \in DOMAIN hist :
        (i < j /\ hist[i].key = hist[j].key /\ IsLastPut(j)) =>
            /\ (op.kind = "get" /\ to_bytes(op.key) = hist[j].key)
                   => ret = Some(hist[j].value)
            /\ SliceGet(file.data, hist[i].start,
                        Plus(hist[i].start, RecordLen(hist[i])))
                   = Some(Layout(hist[i].tstamp, VecLen(hist[i].key),
                                 VecLen(hist[i].value), hist[i].key, hist[i].value))
            /\ \A k \in DOMAIN keydir :
                   ~ ( /\ keydir[k].value_pos
                            = Plus(hist[i].start, Plus(Wide(12), VecLen(hist[i].key)))
                       /\ keydir[k].value_sz = VecLen(hist[i].value) )

(* C3: absent key. A get for a key whose bytes were never the key of a put *)
(* returns None, on a fresh store as well as after puts for other keys.    *)
C3_AbsentKey ==
    (op.kind = "get" /\ to_bytes(op.key) \notin PutKeys) => ret = None

C3_Witness ==
    /\ op.kind = "get"
    /\ hist # <<>>
    /\ to_bytes(op.key) \notin PutKeys
    /\ ret = None

(* C4: index/log consistency. Every index entry's range                    *)
(* [value_pos, value_pos + value_sz) lies inside the log and holds exactly *)
(* the value of the most recent put for its key.                           *)
C4_IndexLogConsistency ==
    \A k \in DOMAIN keydir :
        /\ LE(Plus(keydir[k].value_pos, keydir[k].value_sz), VecLen(file.data))
        /\ k \in PutKeys
        /\ SliceGet(file.data, keydir[k].value_pos,
                    Plus(keydir[k].value_pos, keydir[k].value_sz))
               = Some(LastPut(k).value)

(* C5: append-only log. After every call the log as it was before the     *)
(* call is a prefix of the log, the log is no shorter, and a put has made  *)
(* it longer by exactly 12 + len(k) + len(v).                              *)
C5_AppendOnly ==
    /\ IsPrefix(prev, file.data)
    /\ LE(VecLen(prev), VecLen(file.data))
    /\ op.kind = "put" =>
           VecLen(file.data)
               = Plus(VecLen(prev),
                      Plus(Plus(Wide(12), VecLen(to_bytes(op.key))),
                           VecLen(to_bytes(op.value))))
    /\ op.kind = "get" => file.data = prev

C5_Witness ==
    /\ Len(hist) = 2
    /\ op.kind = "put"
    /\ hist[1].value # <<>>
    /\ hist[2].start = RecordLen(hist[1])
    /\ VecLen(file.data) = Plus(hist[2].start, RecordLen(hist[2]))

(* C6: codec round trip. Decoding the encoding of a record whose ksz and   *)
(* value_sz equal the lengths of its key and value gives the record back.  *)
C6_RoundTrip ==
    (op.kind = "decode_encoded" /\ WellFormed(entry)) => ret = Ok(entry)

C6_Witness ==
    /\ op.kind = "decode_encoded"
    /\ WellFormed(entry)
    /\ entry.key # <<>>
    /\ entry.value # <<>>
    /\ ret = Ok(entry)

(* C7: encoding layout. For every record, encode succeeds with exactly     *)
(* 12 + ksz + value_sz bytes: tstamp, ksz, value_sz big-endian, the key,   *)
(* the value; the value begins at 12 + ksz, which is value_offset().       *)
C7_EncodingLayout ==
    op.kind = "encode" =>
        /\ ret.ok
        /\ VecLen(ret.v) = Plus(Plus(Wide(12), entry.ksz), entry.value_sz)
        /\ ret.v = Layout(entry.tstamp, entry.ksz, entry.value_sz,
                          entry.key, entry.value)
        /\ value_offset(entry) = Plus(Wide(12), entry.ksz)
        /\ SliceGet(ret.v, Plus(Wide(12), entry.ksz),
                    Plus(Plus(Wide(12), entry.ksz), entry.value_sz))
               = Some(entry.value)

(* C8: decode fails on a buffer shorter than 12 bytes, or whose declared   *)
(* ksz exceeds what follows the header, or whose declared value_sz exceeds *)
(* what follows the key; it succeeds on a buffer of at least               *)
(* 12 + ksz + value_sz bytes.                                              *)
C8_DecodeTruncated ==
    Decoded =>
        LET n == VecLen(bytes) IN
        IF LT(n, Wide(12)) THEN ~ret.ok
        ELSE LET ksz  == DeclaredKsz(bytes)
                 vsz  == DeclaredValueSz(bytes)
                 need == Plus(Plus(Wide(12), ksz), vsz)
             IN  /\ LT(n, Plus(Wide(12), ksz)) => ~ret.ok
                 /\ LT(n, need) => ~ret.ok
                 /\ LE(need, n) => ret.ok

C8_Witness ==
    /\ op.kind = "decode"
    /\ LE(Wide(12), VecLen(bytes))
    /\ LE(Plus(Wide(12), DeclaredKsz(bytes)), VecLen(bytes))
    /\ DeclaredKsz(bytes) # Zero
    /\ LT(VecLen(bytes),
          Plus(Plus(Wide(12), DeclaredKsz(bytes)), DeclaredValueSz(bytes)))
    /\ ~ret.ok

(* C9: key representations. A put with one representation of a key         *)
(* followed by a get with another representation of the same bytes returns *)
(* the value put, and a put for bytes already in the index adds no entry.  *)
C9_KeyRepresentation ==
    [][ /\ ( /\ op.kind = "put"
             /\ op'.kind = "get"
             /\ op'.key # op.key
             /\ to_bytes(op'.key) = to_bytes(op.key) )
            => ret' = Some(to_bytes(op.value))
        /\ ( /\ Len(hist') = Len(hist) + 1
             /\ to_bytes(op'.key) \in DOMAIN keydir )
            => DOMAIN keydir' = DOMAIN keydir ]_vars

(* C10: put never fails. Every put returns Ok, its record is in the log    *)
(* and its key in the index: no put returns an error with the index        *)
(* written and the record not appended.                                    *)
C10_PutNeverFails ==
    /\ op.kind = "put" => ret = Ok(<<>>)
    /\ \A i \in DOMAIN hist : hist[i].result.ok
    /\ VecLen(file.data) = SumRecordLen(hist)
    /\ DOMAIN keydir = PutKeys

C10_Witness ==
    /\ op.kind = "put"
    /\ ret = Ok(<<>>)
    /\ Len(hist) = 2
    /\ hist[1].key = hist[2].key
    /\ op.value = VecKey(BulkVec)

(* C11: record size invariant. Every record built by KeyValueEntry::new and *)
(* every record a decode returns has ksz = len(key) and                    *)
(* value_sz = len(value), whatever the lengths.                            *)
C11_RecordSizes ==
    /\ WellFormed(entry)
    /\ (Decoded /\ ret.ok) => WellFormed(ret.v)

(* C12: value offset arithmetic. After a put, the index entry of its key   *)
(* holds value_pos = (log size before the put) + 12 + len(key), the        *)
(* position of the value's first byte, and value_sz = len(value).          *)
C12_ValueOffset ==
    op.kind = "put" =>
        LET k == to_bytes(op.key)
            v == to_bytes(op.value)
        IN  /\ k \in DOMAIN keydir
            /\ keydir[k].value_pos = Plus(VecLen(prev), Plus(Wide(12), VecLen(k)))
            /\ keydir[k].value_sz = VecLen(v)
            /\ SliceGet(file.data, keydir[k].value_pos,
                        Plus(keydir[k].value_pos, VecLen(v))) = Some(v)

\* the index entry of key bytes k designates a range not inside the log
OutOfBounds(k) ==
    ~LE(Plus(keydir[k].value_pos, keydir[k].value_sz), VecLen(file.data))

(* C13: an out-of-bounds read is a miss. A get for a key whose index entry *)
(* designates a range not fully inside the log returns None and leaves the *)
(* log, the segment id and the index as they were.                         *)
C13_OutOfBoundsMiss ==
    ( /\ op.kind = "get"
      /\ to_bytes(op.key) \in DOMAIN keydir
      /\ OutOfBounds(to_bytes(op.key)) )
        => /\ ret = None
           /\ file.data = prev
           /\ file.id = was.id
           /\ keydir = was.keydir

C13_Witness ==
    /\ op.kind = "get"
    /\ pending.some
    /\ to_bytes(op.key) = pending.v.entry.key
    /\ OutOfBounds(to_bytes(op.key))
    /\ hist # <<>>
    /\ ret = None

\* the values given to a put for key bytes k, the put in progress included
ValuesWritten(k) ==
    { hist[i].value : i \in { j \in DOMAIN hist : hist[j].key = k } }
    \cup (IF pending.some /\ pending.v.entry.key = k
          THEN {pending.v.entry.value} ELSE {})

(* C14: ordering inside put. Between the index insert and the append, the  *)
(* new entry holds (log size) + 12 + len(key) and starts beyond the end of *)
(* the log, so a get for the key being written returns None; no get        *)
(* returns bytes that are not a value written for its key; once the append *)
(* is done, get returns the new value.                                     *)
C14_PutOrdering ==
    /\ pending.some =>
           LET k == pending.v.entry.key IN
           /\ keydir[k].value_pos
                  = Plus(VecLen(file.data), Plus(Wide(12), VecLen(k)))
           /\ LT(VecLen(file.data), keydir[k].value_pos)
           /\ (op.kind = "get" /\ to_bytes(op.key) = k) => ret = None
    /\ (op.kind = "get" /\ ret.some) => ret.v \in ValuesWritten(to_bytes(op.key))
    /\ (op.kind = "get" /\ ~pending.some /\ to_bytes(op.key) \in PutKeys)
           => ret = Some(LastPut(to_bytes(op.key)).value)

\* the log a sequence of puts should leave: their records, in call order
RECURSIVE LogOf(_)
LogOf(h) ==
    IF h = <<>> THEN <<>>
    ELSE Extend(Layout(Head(h).tstamp, VecLen(Head(h).key), VecLen(Head(h).value),
                       Head(h).key, Head(h).value),
                LogOf(Tail(h)))

\* a scan of the log from pos: each record's declared sizes give the next
\* record's start; the last record of a key wins. ok when the scan ends
\* exactly at the end of the log.
RECURSIVE Replay(_, _, _)
Replay(log, pos, index) ==
    IF pos = VecLen(log) THEN [ok |-> TRUE, index |-> index]
    ELSE IF ~LE(Plus(pos, Wide(12)), VecLen(log)) THEN [ok |-> FALSE, index |-> index]
    ELSE LET rest == Drop(log, pos)
             t    == BigEndian_read_u32(Expand(Take(rest, Wide(4))))
             ksz  == DeclaredKsz(rest)
             vsz  == DeclaredValueSz(rest)
             next == Plus(pos, Plus(Plus(Wide(12), ksz), vsz))
         IN  IF ~LE(next, VecLen(log)) THEN [ok |-> FALSE, index |-> index]
             ELSE Replay(log, next,
                         Insert(index, Take(Drop(rest, Wide(12)), ksz),
                                [value_sz  |-> vsz,
                                 value_pos |-> Plus(pos, Plus(Wide(12), ksz)),
                                 tstamp    |-> t]))

(* C15: log replay. The log is the concatenation, in call order, of the    *)
(* records put; a scan from offset 0 by the declared sizes ends exactly at *)
(* the end of the log; and the index the scan rebuilds (value_sz,          *)
(* value_pos = record start + 12 + ksz, tstamp) equals the live index      *)
(* entry of every key.                                                     *)
C15_LogReplay ==
    LET r == Replay(file.data, Zero, <<>>) IN
    /\ file.data = LogOf(hist)
    /\ r.ok
    /\ DOMAIN r.index = DOMAIN keydir
    /\ \A k \in DOMAIN keydir :
           /\ r.index[k].value_sz = keydir[k].value_sz
           /\ r.index[k].value_pos = keydir[k].value_pos
           /\ r.index[k].tstamp = keydir[k].tstamp

(* C16: frame. A get leaves the log bytes, the segment id and every index  *)
(* entry as they were, so the same get made again returns the same result; *)
(* a put leaves the index entry of every other key as it was.              *)
C16_Frame ==
    /\ op.kind = "get" =>
           /\ file.data = prev
           /\ file.id = was.id
           /\ keydir = was.keydir
           /\ get(this, op.key) = ret
    /\ op.kind = "put" =>
           \A k \in DOMAIN was.keydir \ {to_bytes(op.key)} :
               k \in DOMAIN keydir /\ keydir[k] = was.keydir[k]

C16_Witness ==
    /\ op.kind = "put"
    /\ Len(hist) = 2
    /\ hist[1].key # hist[2].key
    /\ keydir[hist[1].key] = was.keydir[hist[1].key]
    /\ keydir[hist[2].key].value_pos # keydir[hist[1].key].value_pos

(* C17: segment identity. No call changes the segment's id, and every      *)
(* index entry's file_id is the id of the store's segment.                 *)
C17_SegmentIdentity ==
    /\ file.id = was.id
    /\ \A k \in DOMAIN keydir : keydir[k].file_id = file.id

C17_Witness ==
    /\ Len(hist) = 2
    /\ hist[1].key # hist[2].key
    /\ hist[1].tstamp # file.id
    /\ \A k \in DOMAIN keydir : keydir[k].file_id = file.id

====
